---- MODULE Spec2Model ----
(***************************************************************************)
(* A model of the recursive data-element decoder of dcmdump                *)
(* (src/dcmdump/dcmdump.go, parseDataElement and DicomFile.ProcessFile).   *)
(*                                                                         *)
(* The buffer is a Go byte slice: it has a length l = len(bytes) and a     *)
(* capacity cap(bytes) >= l.  A slice expression bytes[lo:hi] panics when  *)
(* lo > hi or hi > cap(bytes); an index expression bytes[i] panics when    *)
(* i >= len(bytes).  The variable `bytes` holds the backing array up to    *)
(* its capacity bound; offsets are 0-based as in the source.               *)
(*                                                                         *)
(* The recursion of parseDataElement is modelled by an explicit stack of   *)
(* frames holding the locals of each activation.  int is 64 bits wide      *)
(* (amd64/arm64), so m += int(len) never wraps for a uint32 len.           *)
(*                                                                         *)
(* A uint32 is held as the 32-bit two's-complement integer with the same   *)
(* bits: a negative number stands for a length of 2^31 or more, and -1     *)
(* for 0xFFFFFFFF.  Such a length added to an offset exceeds the capacity  *)
(* of every buffer that fits in memory, hence of every buffer here.        *)
(***************************************************************************)
EXTENDS Integers, Sequences, FiniteSets, TLC

VARIABLES
    bytes,       \* the backing array of the buffer handed to ProcessFile
    l,           \* len(bytes)
    cap,         \* cap(bytes)
    mode,        \* the explicit flag handed to ProcessFile
    stack,       \* activations of parseDataElement, innermost last
    status,      \* "running", "returned" (ProcessFile returned) or "panic"
    result,      \* di.Elements once ProcessFile has returned
    oob,         \* history: some read or slice reached past len(bytes) or past limit
    nested,      \* history: the elements returned by the recursive calls so far
    phase,       \* "single", or "full" / "cut" for the truncation experiment
    fullStatus,  \* truncation experiment: status of the decode of the whole buffer
    fullResult,  \* truncation experiment: result of the decode of the whole buffer
    rendered     \* the outputs of String() / StringData() on di.Elements, in order

vars == <<bytes, l, cap, mode, stack, status, result, oob, nested, phase,
          fullStatus, fullResult, rendered>>

----------------------------------------------------------------------------
(* Bounds of the model. *)

\* number of chunks a buffer is built from (specification Spec)
MaxChunks == 3

\* number of chunks a buffer is built from (specification SpecCut)
MaxCutChunks == 2

\* number of bytes by which len(bytes) may fall short of the chunk boundary
Slack == 4

----------------------------------------------------------------------------
(* Program constants. *)

\* the "undefined length" sentinel 0xFFFFFFFF, as a 32-bit pattern
UndefinedLength == -1

\* the 8 bytes of a delimiter (tag + length) skipped after an undefined-length value
DelimiterSize == 8

\* String() prints "..." for a value of this length or more
PlaceholderLen == 128

HexDigit == <<"0", "1", "2", "3", "4", "5", "6", "7",
              "8", "9", "A", "B", "C", "D", "E", "F">>

\* strings.ToUpper(fmt.Sprintf("%02x", b))
Hex2(b) == <<HexDigit[(b \div 16) + 1], HexDigit[(b % 16) + 1]>>

\* tagString: "%02x%02x%02x%02x" of b[1], b[0], b[3], b[2] (0-based), upper-cased
tagString(b) == Hex2(b[2]) \o Hex2(b[1]) \o Hex2(b[4]) \o Hex2(b[3])

ItemTag == <<"F", "F", "F", "E", "E", "0", "0", "0">>
ItemDelimitationItem == <<"F", "F", "F", "E", "E", "0", "0", "D">>
SequenceDelimitationItem == <<"F", "F", "F", "E", "E", "0", "D", "D">>
PixelDataTag == <<"7", "F", "E", "0", "0", "0", "1", "0">>

\* VR codes are 2-byte strings; string(bytes[n:m]) keeps the bytes as they are
VR_OB == <<79, 66>>
VR_OD == <<79, 68>>
VR_OF == <<79, 70>>
VR_OL == <<79, 76>>
VR_OW == <<79, 87>>
VR_SQ == <<83, 81>>
VR_UC == <<85, 67>>
VR_UR == <<85, 82>>
VR_UT == <<85, 84>>
VR_UN == <<85, 78>>
VR_UI == <<85, 73>>
\* the string "00" given to an all-zero VR code
BlankVR == <<48, 48>>

\* the keys of vri.VR (package dcmdump/vr): the codes the specification names
VRDict == {VR_OB, VR_OD, VR_OF, VR_OL, VR_OW, VR_SQ, VR_UC, VR_UR, VR_UT,
           VR_UN, VR_UI}

\* a variant that takes OW for a short-form code
LongFormNoOW == {VR_OB, VR_OD, VR_OF, VR_OL, VR_SQ, VR_UC, VR_UR, VR_UT, VR_UN}

\* the codes followed by 2 reserved bytes and a 4-byte length
LongForm == {VR_OB, VR_OD, VR_OF, VR_OL, VR_OW, VR_SQ, VR_UC, VR_UR, VR_UT,
             VR_UN}

\* binary.LittleEndian.Uint16 / Uint32
LE16(b) == b[1] + 256 * b[2]
LE32(b) == b[1] + 256 * b[2] + 65536 * b[3]
           + 16777216 * (IF b[4] >= 128 THEN b[4] - 256 ELSE b[4])

----------------------------------------------------------------------------
(* Go slice semantics over the buffer. *)

\* bytes[lo:hi] does not panic
SliceOK(lo, hi) == 0 <= lo /\ lo <= hi /\ hi <= cap

\* bytes[n:n+int(len)] does not panic
ValueOK(n, len) == len >= 0 /\ SliceOK(n, n + len)

\* bytes[i] does not panic
IndexOK(i) == 0 <= i /\ i < l

\* the bytes of bytes[lo:hi]
Slice(lo, hi) == SubSeq(bytes, lo + 1, hi)

\* a read of [lo, hi) reaches past the buffer end or past the limit
Past(hi, limit) == hi > l \/ hi > limit

----------------------------------------------------------------------------
(* Input buffers: concatenations of element-sized chunks. *)

\* (0008,0018) "UI", 16-bit length 2, 2 value bytes
LEAF == <<8, 0, 24, 0, 85, 73, 2, 0, 65, 0>>
\* (0008,0018), 32-bit length 2, 2 value bytes: an implicit-mode element
ILEAF == <<8, 0, 24, 0, 2, 0, 0, 0, 65, 0>>
\* (0002,0010) with an all-zero VR code and length 0
BLANK == <<2, 0, 16, 0, 0, 0, 0, 0>>
\* (7FE0,0010) "OW", reserved, 32-bit length 2, 2 value bytes
PIX == <<224, 127, 16, 0, 79, 87, 0, 0, 2, 0, 0, 0, 65, 66>>
\* (0008,0018) "SQ", reserved, 32-bit length 10
SQD == <<8, 0, 24, 0, 83, 81, 0, 0, 10, 0, 0, 0>>
\* (0008,0018) "SQ", reserved, undefined length
SQU == <<8, 0, 24, 0, 83, 81, 0, 0, 255, 255, 255, 255>>
\* (FFFE,E000) "SQ", reserved, 32-bit length 10: an item carrying the VR SQ
ISQ == <<254, 255, 0, 224, 83, 81, 0, 0, 10, 0, 0, 0>>
\* (FFFE,E000), undefined length: an implicit-mode item
ITU == <<254, 255, 0, 224, 255, 255, 255, 255>>
\* (FFFE,E00D), length 0
IDL == <<254, 255, 13, 224, 0, 0, 0, 0>>
\* (FFFE,E0DD), length 0
SDL == <<254, 255, 221, 224, 0, 0, 0, 0>>

Chunks == {LEAF, ILEAF, BLANK, PIX, SQD, SQU, ISQ, ITU, IDL, SDL}

RECURSIVE Flatten(_)
Flatten(cs) == IF cs = <<>> THEN <<>> ELSE Head(cs) \o Flatten(Tail(cs))

Buffers(k) == {Flatten(cs) : cs \in UNION {[1..i -> Chunks] : i \in 0..k}}

----------------------------------------------------------------------------
(* Activations of parseDataElement. *)

\* DataElement{}; ValueStart, UndefinedLen and After are history fields
NoElement == [N |-> 0, TagStr |-> <<>>, VRStr |-> <<>>, Len |-> 0, Data |-> <<>>,
              ValueStart |-> 0, UndefinedLen |-> FALSE, After |-> 0]

\* the locals of parseDataElement(bytes, n, explicit, limit) on entry
NewFrame(n, explicit, limit) ==
    [n |-> n, m |-> n, explicit |-> explicit, limit |-> limit,
     elements |-> <<>>, pc |-> "loop", de |-> NoElement, len |-> 0,
     vr |-> <<>>, undefinedLen |-> FALSE]

Top == stack[Len(stack)]

SetTop(f) == [stack EXCEPT ![Len(stack)] = f]

Running == status = "running" /\ Len(stack) > 0

\* runtime panic: the goroutine unwinds, nothing is returned
Panic ==
    /\ status' = "panic"
    /\ oob' = TRUE
    /\ UNCHANGED <<bytes, l, cap, mode, stack, result, nested, phase,
                   fullStatus, fullResult, rendered>>

\* the activation goes on with frame f; reachedPast tells whether its reads left the span
Step(f, reachedPast) ==
    /\ stack' = SetTop(f)
    /\ oob' = (oob \/ reachedPast)
    /\ UNCHANGED <<bytes, l, cap, mode, status, result, nested, phase,
                   fullStatus, fullResult, rendered>>

\* for n <= l && m+4 <= l && n <= limit && m+4 <= limit
LoopGuard(f) ==
    f.n <= l /\ f.m + 4 <= l /\ f.n <= f.limit /\ f.m + 4 <= f.limit

----------------------------------------------------------------------------
(* The loop of parseDataElement, one action per stage of an iteration. *)

\* lines 234-254: the loop condition holds; read the 4-byte tag
ReadTag ==
    /\ Running
    /\ Top.pc = "loop"
    /\ LoopGuard(Top)
    /\ LET f == Top
           m == f.m + 4
       IN IF ~SliceOK(f.n, m)
          THEN Panic
          ELSE Step([f EXCEPT !.undefinedLen = FALSE,
                              !.de = [NoElement EXCEPT
                                         !.N = f.n,
                                         !.TagStr = tagString(Slice(f.n, m))],
                              !.m = m,
                              !.n = m,
                              !.len = 0,
                              !.vr = <<>>,
                              !.pc = IF f.explicit THEN "vr" ELSE "length"],
                    Past(m, f.limit))

\* lines 234, 366-367: the loop condition fails; return elements
LoopExit ==
    /\ Running
    /\ Top.pc = "loop"
    /\ ~LoopGuard(Top)
    /\ Step([Top EXCEPT !.pc = "done"], FALSE)

\* a blank test that accepts every unknown code
IsBlankCodeAny(n) == TRUE

\* line 265: bytes[n] == 0x0 && bytes[n+1] == 0x0 (both indexes in range)
IsBlankCode(n) == bytes[n + 1] = 0 /\ bytes[n + 2] = 0

\* line 265 panics: bytes[n] out of range, or bytes[n] is zero and bytes[n+1] out of range
BlankTestPanics(n) ==
    \/ ~IndexOK(n)
    \/ bytes[n + 1] = 0 /\ ~IndexOK(n + 1)

\* lines 257-275: explicit mode; read the 2-byte VR code and look it up
ReadVR ==
    /\ Running
    /\ Top.pc = "vr"
    /\ LET f == Top
           m == f.m + 2
       IN IF ~SliceOK(f.n, m)
          THEN Panic
          ELSE LET code == Slice(f.n, m)
               IN IF code \in VRDict
                  THEN Step([f EXCEPT !.de.VRStr = code, !.vr = code,
                                      !.m = m, !.n = m, !.pc = "length"],
                            Past(m, f.limit))
                  ELSE IF BlankTestPanics(f.n)
                  THEN Panic
                  ELSE IF IsBlankCode(f.n)
                  THEN Step([f EXCEPT !.de.VRStr = BlankVR, !.vr = BlankVR,
                                      !.m = m, !.n = m, !.pc = "length"],
                            Past(m, f.limit))
                  ELSE IF ~SliceOK(f.n, f.limit)
                  THEN Panic
                  ELSE Step([f EXCEPT !.de.VRStr = code, !.vr = code,
                                      !.m = m, !.pc = "done"],
                            Past(m, f.limit) \/ Past(f.limit, f.limit))

\* lines 276-309: the offset of the length field's end, from the field's start
LengthEnd(f) ==
    IF f.explicit
    THEN IF f.vr \in LongForm THEN f.n + 6 ELSE f.n + 2
    ELSE f.n + 4

\* lines 293, 299-300, 307: the value of the length field ending at hi
LengthValue(f, hi) ==
    IF f.explicit /\ f.vr \notin LongForm
    THEN LE16(Slice(hi - 2, hi))
    ELSE LE32(Slice(hi - 4, hi))

\* lines 276-311: read the length field; 0xFFFFFFFF starts the delimiter scan
ReadLength ==
    /\ Running
    /\ Top.pc = "length"
    /\ LET f == Top
           hi == LengthEnd(f)
       IN IF ~SliceOK(f.n, hi)
          THEN Panic
          ELSE LET len == LengthValue(f, hi)
               IN Step([f EXCEPT !.len = len,
                                 !.m = hi,
                                 !.n = hi,
                                 !.undefinedLen = (len = UndefinedLength),
                                 !.pc = IF len = UndefinedLength
                                        THEN "scan" ELSE "value"],
                       Past(hi, f.limit))

\* a delimiter test that lets FFFEE00D close any element
IsDelimiterAnyTag(tagStr, endTagStr) ==
    endTagStr \in {ItemDelimitationItem, SequenceDelimitationItem}

\* lines 315, 322: the 4 bytes at the scan position end the element
IsDelimiter(tagStr, endTagStr) ==
    \/ tagStr = ItemTag /\ endTagStr = ItemDelimitationItem
    \/ endTagStr = SequenceDelimitationItem

\* lines 312-336: one probe of the scan for the delimiter tag
ScanStep ==
    /\ Running
    /\ Top.pc = "scan"
    /\ LET f == Top
       IN IF ~SliceOK(f.m, f.m + 4)
          THEN Panic
          ELSE IF IsDelimiter(f.de.TagStr, tagString(Slice(f.m, f.m + 4)))
          THEN Step([f EXCEPT !.len = f.m - f.n, !.m = f.n, !.pc = "value"],
                    Past(f.m + 4, f.limit))
          ELSE IF f.m + 1 >= l
          THEN IF ~SliceOK(f.n, l)
               THEN Panic
               ELSE Step([f EXCEPT !.m = f.m + 1, !.pc = "done"],
                         Past(f.m + 4, f.limit))
          ELSE Step([f EXCEPT !.m = f.m + 1], Past(f.m + 4, f.limit))

\* a value slice clipped away when it ends at the limit or the buffer end
LeafDataClipped(f, hi) ==
    IF hi < f.limit /\ hi < l THEN Slice(f.n, hi) ELSE <<>>

\* line 357: de.Data = bytes[n:m]
LeafData(f, hi) == Slice(f.n, hi)

\* an advance past the delimiter's tag only
CursorAfterTagOnly(f, hi) == IF f.undefinedLen THEN hi + 4 ELSE hi

\* an advance that forgets the delimiter
CursorAfterNoDelimiter(f, hi) == hi

\* lines 360-363: if undefinedLen { m += 8 }; n = m
CursorAfter(f, hi) == IF f.undefinedLen THEN hi + DelimiterSize ELSE hi

\* lines 338, 360-364: the element of this iteration, completed and appended
Completed(f, hi, data) ==
    LET de == [f.de EXCEPT !.Len = f.len, !.Data = data, !.ValueStart = f.n,
                           !.UndefinedLen = f.undefinedLen,
                           !.After = CursorAfter(f, hi)]
    IN [f EXCEPT !.de = de,
                 !.m = CursorAfter(f, hi),
                 !.n = CursorAfter(f, hi),
                 !.elements = Append(f.elements, de),
                 !.pc = "loop"]

\* lines 338-341, 356-364: an element that is no container; slice its value, append it
LeafValue ==
    /\ Running
    /\ Top.pc = "value"
    /\ Top.de.TagStr # ItemTag
    /\ Top.vr # VR_SQ
    /\ LET f == Top
           hi == f.m + f.len
       IN IF ~ValueOK(f.n, f.len)
          THEN Panic
          ELSE Step(Completed(f, hi, LeafData(f, hi)), Past(hi, f.limit))

\* a child mode inherited from the enclosing call
ChildModeInherited(f) == f.explicit

\* lines 347, 354: the mode handed to the recursive call
ChildMode(f) == f.de.TagStr = ItemTag

\* lines 338-355: an item or a sequence; call parseDataElement on its span
Call(f, hi) ==
    /\ stack' = Append(SetTop([f EXCEPT !.de.Len = f.len, !.de.ValueStart = f.n,
                                        !.m = hi, !.pc = "call"]),
                       NewFrame(f.n, ChildMode(f), hi))
    /\ oob' = (oob \/ Past(hi, f.limit))
    /\ UNCHANGED <<bytes, l, cap, mode, status, result, nested, phase,
                   fullStatus, fullResult, rendered>>

\* lines 342-348: tag FFFEE000; recurse with explicit = true
CallItem ==
    /\ Running
    /\ Top.pc = "value"
    /\ Top.de.TagStr = ItemTag
    /\ LET f == Top
           hi == f.m + f.len
       IN IF ~ValueOK(f.n, f.len) THEN Panic ELSE Call(f, hi)

\* lines 349-355: VR SQ on another tag; recurse with explicit = false
CallSQ ==
    /\ Running
    /\ Top.pc = "value"
    /\ Top.de.TagStr # ItemTag
    /\ Top.vr = VR_SQ
    /\ LET f == Top
           hi == f.m + f.len
       IN IF ~ValueOK(f.n, f.len) THEN Panic ELSE Call(f, hi)

\* lines 347/354 then 360-364: the recursive call returns; its result is dropped
Return ==
    /\ Running
    /\ Len(stack) > 1
    /\ Top.pc = "done"
    /\ LET child == Top
           f == stack[Len(stack) - 1]
       IN /\ stack' = Append(SubSeq(stack, 1, Len(stack) - 2),
                             Completed(f, f.m, <<>>))
          /\ nested' = nested \o child.elements
    /\ UNCHANGED <<bytes, l, cap, mode, status, result, oob, phase,
                   fullStatus, fullResult, rendered>>

\* line 474: di.Elements = parseDataElement(bytes, m, explicit, len(bytes))
Finish ==
    /\ Running
    /\ Len(stack) = 1
    /\ Top.pc = "done"
    /\ status' = "returned"
    /\ result' = Top.elements
    /\ UNCHANGED <<bytes, l, cap, mode, stack, oob, nested, phase,
                   fullStatus, fullResult, rendered>>

\* ProcessFile on the first k bytes of the buffer, after the whole was decoded
Truncate ==
    /\ phase = "full"
    /\ status # "running"
    /\ \E k \in 0..Len(bytes) : \E c \in {k, Len(bytes)} :
          /\ l' = k
          /\ cap' = c
          /\ stack' = <<NewFrame(0, mode, k)>>
    /\ fullStatus' = status
    /\ fullResult' = result
    /\ status' = "running"
    /\ result' = <<>>
    /\ oob' = FALSE
    /\ nested' = <<>>
    /\ phase' = "cut"
    /\ UNCHANGED <<bytes, mode, rendered>>

----------------------------------------------------------------------------
(* Specifications. *)

\* ProcessFile(bytes, 0, explicit) on a buffer of chunks, whole or short by Slack
\* bytes, with no spare capacity or with the rest of the chunks as spare capacity
Init ==
    /\ bytes \in Buffers(MaxChunks)
    /\ l \in {Len(bytes)} \cup {Len(bytes) - s : s \in {x \in {Slack} : x <= Len(bytes)}}
    /\ cap \in {l, Len(bytes)}
    /\ mode \in BOOLEAN
    /\ stack = <<NewFrame(0, mode, l)>>
    /\ status = "running"
    /\ result = <<>>
    /\ oob = FALSE
    /\ nested = <<>>
    /\ phase = "single"
    /\ fullStatus = "none"
    /\ fullResult = <<>>
    /\ rendered = <<>>

\* ProcessFile(bytes, 0, explicit) on a whole buffer, to be truncated afterwards
InitCut ==
    /\ bytes \in Buffers(MaxCutChunks)
    /\ l = Len(bytes)
    /\ cap = Len(bytes)
    /\ mode \in BOOLEAN
    /\ stack = <<NewFrame(0, mode, l)>>
    /\ status = "running"
    /\ result = <<>>
    /\ oob = FALSE
    /\ nested = <<>>
    /\ phase = "full"
    /\ fullStatus = "none"
    /\ fullResult = <<>>
    /\ rendered = <<>>

Next ==
    \/ ReadTag
    \/ LoopExit
    \/ ReadVR
    \/ ReadLength
    \/ ScanStep
    \/ LeafValue
    \/ CallItem
    \/ CallSQ
    \/ Return
    \/ Finish

NextCut == Next \/ Truncate

----------------------------------------------------------------------------
(* Rendering of the decoded elements: DataElement.String and stringData. *)

TransferSyntaxUID == <<"0", "0", "0", "2", "0", "0", "1", "0">>

\* the keys of ts.TS (package dcmdump/ts): "1.2.840.10008.1.2"
TSDict == {<<49, 46, 50, 46, 56, 52, 48, 46, 49, 48, 48, 48, 56, 46, 49, 46, 50>>}

\* vri.VR[vr]["fixed"] with vri.VR[vr]["len"]: the width of a fixed-size code, 0 for
\* the others; none of the codes of VRDict is a fixed-size numeric code
FixedWidth(vr) == 0

\* vri.VR[vr]["padded"]: "UI" is padded text
PaddedVR == {VR_UI}

\* the outcome of the panic "index out of range" in a rendering
RenderPanic == [kind |-> "panic", text |-> <<>>]

\* lines 180-181, 219-220: the text without its last byte when that byte is 0x0
StripNull(data) ==
    IF data[Len(data)] = 0 THEN SubSeq(data, 1, Len(data) - 1) ELSE data

\* lines 194-211: the little-endian groups of w bytes, the last partial group left out
RECURSIVE Groups(_, _)
Groups(data, w) ==
    IF Len(data) < w
    THEN <<>>
    ELSE <<(IF w = 1 THEN data[1]
            ELSE IF w = 2 THEN LE16(data) ELSE LE32(data))>>
             \o Groups(SubSeq(data, w + 1, Len(data)), w)

\* lines 187-225: stringData after the transfer-syntax case
StringDataByVR(e) ==
    IF FixedWidth(e.VRStr) \in {1, 2, 4}
    THEN [kind |-> "numbers", text |-> Groups(e.Data, FixedWidth(e.VRStr))]
    ELSE IF FixedWidth(e.VRStr) # 0
    THEN [kind |-> "text", text |-> e.Data]
    ELSE IF e.VRStr \in PaddedVR
    THEN IF e.Data = <<>>
         THEN RenderPanic
         ELSE [kind |-> "text", text |-> StripNull(e.Data)]
    ELSE [kind |-> "text", text |-> e.Data]

\* lines 176-226: stringData
stringData(e) ==
    IF e.TagStr = TransferSyntaxUID
    THEN IF e.Data = <<>>
         THEN RenderPanic
         ELSE IF StripNull(e.Data) \in TSDict
         THEN [kind |-> "ts", text |-> StripNull(e.Data)]
         ELSE StringDataByVR(e)
    ELSE StringDataByVR(e)

\* lines 92-105: String; de.Len is a uint32
String(e) ==
    IF e.Len >= 0 /\ e.Len < PlaceholderLen
    THEN stringData(e)
    ELSE [kind |-> "placeholder", text |-> <<>>]

\* lines 92-105, 172-174: the caller renders the next element of di.Elements
Render ==
    /\ status = "returned"
    /\ Len(rendered) < Len(result)
    /\ \E viaString \in BOOLEAN :
          LET e == result[Len(rendered) + 1]
              out == IF viaString THEN String(e) ELSE stringData(e)
          IN /\ rendered' = Append(rendered, [viaString |-> viaString, out |-> out])
             /\ status' = IF out = RenderPanic THEN "panic" ELSE status
    /\ UNCHANGED <<bytes, l, cap, mode, stack, result, oob, nested, phase,
                   fullStatus, fullResult>>

NextRender == Next \/ Render

SpecRender == Init /\ [][NextRender]_vars

Spec == Init /\ [][Next]_vars

SpecCut == InitCut /\ [][NextCut]_vars

----------------------------------------------------------------------------
(* Auxiliary definitions of the properties. *)

Activations == {stack[i] : i \in 1..Len(stack)}

ElementsOf(seq) == {seq[i] : i \in 1..Len(seq)}

\* every element appended so far, at any depth
AllElements ==
    ElementsOf(result) \cup ElementsOf(nested)
        \cup UNION {ElementsOf(f.elements) : f \in Activations}

Terminated == status # "running"

\* the ten long-form codes: OB OD OF OL OW SQ UC UR UT UN
TenCodes == {<<79, 66>>, <<79, 68>>, <<79, 70>>, <<79, 76>>, <<79, 87>>,
             <<83, 81>>, <<85, 67>>, <<85, 82>>, <<85, 84>>, <<85, 78>>}

IsContainer(e) == e.TagStr = ItemTag \/ e.VRStr = VR_SQ

\* the offsets at or after `from`, inside the buffer, where an applicable delimiter tag lies
DelimiterOffsets(from, tagStr) ==
    {d \in from..(l - 4) :
        LET key == tagString(Slice(d, d + 4))
        IN \/ key = SequenceDelimitationItem
           \/ key = ItemDelimitationItem /\ tagStr = ItemTag}

Min(S) == CHOOSE x \in S : \A y \in S : x <= y

SameElement(a, b) ==
    /\ a.TagStr = b.TagStr
    /\ a.VRStr = b.VRStr
    /\ a.Len = b.Len
    /\ a.Data = b.Data

IsPrefixOf(a, b) ==
    /\ Len(a) <= Len(b)
    /\ \A i \in 1..Len(a) : SameElement(a[i], b[i])

----------------------------------------------------------------------------
(* C1..C10 *)

\* C1: parseDataElement never reads or slices the buffer past the buffer end
\* or past the limit it was given.
C1_ReadsStayInside == ~oob

\* C2: decoding always ends with parseDataElement returning.
C2_DecodeReturns == Terminated => status = "returned"

\* C3: decoding the first k bytes of a buffer returns a prefix of what
\* decoding the whole buffer returns (same tag key, VR, Len and value bytes).
C3_TruncatedIsPrefix ==
    (phase = "cut" /\ fullStatus = "returned" /\ Terminated)
        => (status = "returned" /\ IsPrefixOf(result, fullResult))

C5_UndefinedLengthClosure ==
    /\ \A e \in AllElements :
          (e.UndefinedLen /\ DelimiterOffsets(e.ValueStart, e.TagStr) # {})
              => LET d == Min(DelimiterOffsets(e.ValueStart, e.TagStr))
                 IN e.Len = d - e.ValueStart /\ e.After = d + 8
    /\ \A f \in Activations :
          (f.undefinedLen /\ f.pc \in {"value", "call"}
             /\ DelimiterOffsets(f.n, f.de.TagStr) # {})
              => f.len = Min(DelimiterOffsets(f.n, f.de.TagStr)) - f.n

C5_Witness ==
    /\ status = "returned"
    /\ \E e \in ElementsOf(result) :
          /\ e.UndefinedLen
          /\ e.Len > 0
          /\ DelimiterOffsets(e.ValueStart, e.TagStr) # {}
          /\ e.After = l

\* C6 as stated: a recursive decode entered from an element of VR SQ runs
\* implicit, one entered from an item tag runs explicit, and nothing else
\* recurses.
C6_ModeBySQOrItem ==
    \A i \in 2..Len(stack) :
        LET parent == stack[i - 1]
            child == stack[i]
        IN /\ parent.vr = VR_SQ => ~child.explicit
           /\ parent.de.TagStr = ItemTag => child.explicit
           /\ parent.vr = VR_SQ \/ parent.de.TagStr = ItemTag

\* C6 amended: a recursive decode entered from an item tag runs explicit
\* whatever the VR; one entered from an element of VR SQ on any other tag runs
\* implicit; nothing else recurses.
C6_ModeItemFirst ==
    \A i \in 2..Len(stack) :
        LET parent == stack[i - 1]
            child == stack[i]
        IN /\ parent.pc = "call"
           /\ parent.de.TagStr = ItemTag => child.explicit
           /\ parent.de.TagStr # ItemTag => (parent.vr = VR_SQ /\ ~child.explicit)

C6_Witness ==
    /\ Len(stack) = 3
    /\ stack[1].explicit /\ ~stack[2].explicit /\ stack[3].explicit
    /\ stack[1].vr = VR_SQ /\ stack[1].de.TagStr # ItemTag
    /\ stack[2].de.TagStr = ItemTag

\* C7: the result of the top-level decode contains the elements decoded by
\* the recursive calls.
C7_NestedElementsInResult ==
    status = "returned" => ElementsOf(nested) \subseteq ElementsOf(result)

\* C8: a failure inside a nested decode ends only that level; the parent call
\* goes on.
C8_NestedFailureStaysLocal == Len(stack) > 1 => status = "running"

\* C9: explicit mode with one of the ten long-form codes: 2 reserved bytes,
\* 4-byte length, value 12 bytes after the tag start; explicit mode with any
\* other code, "00" included: 2-byte length, value 8 bytes after the tag
\* start; implicit mode: 4-byte length right after the tag, VR empty.
C9_LengthFieldWidth ==
    \A f \in Activations :
        f.pc \in {"scan", "value", "call"} =>
            LET N == f.de.N
                raw == IF f.undefinedLen THEN UndefinedLength ELSE f.len
            IN IF f.explicit /\ f.vr \in TenCodes
               THEN f.n = N + 12 /\ raw = LE32(Slice(N + 8, N + 12))
               ELSE IF f.explicit
               THEN /\ f.n = N + 8
                    /\ raw = LE16(Slice(N + 6, N + 8))
                    /\ raw \in 0..65535
               ELSE /\ f.n = N + 8
                    /\ raw = LE32(Slice(N + 4, N + 8))
                    /\ f.de.VRStr = <<>>

C9_Witness ==
    /\ status = "returned"
    /\ \E a, b \in ElementsOf(result) :
          /\ a.VRStr = VR_OW /\ a.ValueStart = a.N + 12
          /\ b.VRStr = BlankVR /\ b.ValueStart = b.N + 8

\* C10: in explicit mode a VR code lying in the buffer and missing from the
\* dictionary is handled in exactly two ways: all-zero gives the element the
\* VR "00" and decoding goes on; any other code ends the level, which returns
\* exactly the elements completed before.
C10_Step ==
    /\ (Running /\ Top.pc = "vr" /\ Top.n + 2 <= l) =>
          LET code == Slice(Top.n, Top.n + 2)
          IN /\ status' = "running"
             /\ Len(stack') = Len(stack)
             /\ Top'.elements = Top.elements
             /\ IF code \in VRDict
                THEN Top'.pc = "length" /\ Top'.vr = code
                ELSE IF code = <<0, 0>>
                THEN /\ Top'.pc = "length"
                     /\ Top'.vr = BlankVR
                     /\ Top'.de.VRStr = BlankVR
                ELSE Top'.pc = "done"
    /\ (Running /\ Top.pc = "done" /\ Len(stack) = 1) =>
          (status' = "returned" /\ result' = Top.elements)

C10_UnknownVR == [][C10_Step]_vars

C10_Witness ==
    /\ Running
    /\ Top.explicit
    /\ Top.pc = "done"
    /\ Top.de.VRStr \notin VRDict \cup {BlankVR}
    /\ \E e \in ElementsOf(Top.elements) : e.VRStr = BlankVR
    /\ \E e \in ElementsOf(Top.elements) : e.VRStr = VR_UI

----------------------------------------------------------------------------
(* C11..C16 *)

\* C11: an element of length 0xFFFFFFFF with no applicable delimiter tag
\* between its value start and the buffer end makes the level return the
\* elements completed before it: no panic, the element is not appended.
C11_MissingDelimiterReturns ==
    (Len(stack) > 0 /\ Top.pc = "scan"
       /\ DelimiterOffsets(Top.n, Top.de.TagStr) = {})
        => /\ status # "panic"
           /\ \A e \in ElementsOf(Top.elements) : e.After <= Top.de.N

\* C12: the pixel-data element 7FE00010 is appended with empty Data and the
\* declared Len, and the cursor after it is value start + Len.
C12_PixelDataEmpty ==
    \A e \in AllElements :
        (e.TagStr = PixelDataTag /\ ~e.UndefinedLen)
            => e.Data = <<>> /\ e.After = e.ValueStart + e.Len

\* C13: within one level the elements tile the stream: the cursor after an
\* element is its value start plus Len (plus 8 after an undefined length), the
\* next element of the level starts there, and the offsets N strictly
\* increase; containers included, whatever the nested decode consumed.
C13_LevelTiles ==
    \A f \in Activations :
        /\ \A i \in 1..Len(f.elements) :
              LET e == f.elements[i]
              IN /\ e.After = e.ValueStart + e.Len
                                + (IF e.UndefinedLen THEN 8 ELSE 0)
                 /\ i < Len(f.elements) =>
                       /\ f.elements[i + 1].N = e.After
                       /\ f.elements[i + 1].N > e.N
        /\ (f.pc = "loop" /\ f.elements # <<>>) =>
              f.n = f.elements[Len(f.elements)].After

C13_Witness ==
    /\ status = "returned"
    /\ Len(result) >= 2
    /\ IsContainer(result[1])
    /\ result[1].Len > 0
    /\ nested # <<>>
    /\ nested[Len(nested)].After < result[1].After
    /\ result[2].N = result[1].ValueStart + result[1].Len

\* the 4 bytes at offset d render to a delimiter key applicable to tagStr
ApplicableAt(d, tagStr) ==
    LET key == tagString(Slice(d, d + 4))
    IN \/ key = SequenceDelimitationItem
       \/ key = ItemDelimitationItem /\ tagStr = ItemTag

\* C14: the scan advances one byte at a time from the value start and stops
\* at the lowest offset whose 4 bytes render to an applicable delimiter key:
\* FFFEE0DD for any element, FFFEE00D only for an item; FFFEE00D met while
\* scanning for another element is skipped.
C14_Step ==
    (Running /\ Top.pc = "scan") =>
        /\ Top.m >= Top.n
        /\ \A d \in Top.n..(Top.m - 1) : ~ApplicableAt(d, Top.de.TagStr)
        /\ status' = "running" =>
              IF ApplicableAt(Top.m, Top.de.TagStr)
              THEN /\ Top'.pc = "value"
                   /\ Top'.len = Top.m - Top.n
                   /\ Top'.n = Top.n
              ELSE /\ Top'.pc \in {"scan", "done"}
                   /\ Top'.m = Top.m + 1
                   /\ Top'.n = Top.n

C14_ScanByByte == [][C14_Step]_vars

C14_Witness ==
    /\ Running
    /\ Top.pc = "value"
    /\ Top.undefinedLen
    /\ Top.de.TagStr # ItemTag
    /\ \E d \in Top.n..(Top.n + Top.len - 1) :
          tagString(Slice(d, d + 4)) = ItemDelimitationItem

\* C15: for every recursive call, parentStart < childStart <= childLimit
\* <= parentLimit <= len(bytes).
C15_ChildSpanInsideParent ==
    \A i \in 2..Len(stack) :
        LET parent == stack[i - 1]
            child == stack[i]
        IN /\ parent.de.N < parent.de.ValueStart
           /\ parent.de.ValueStart <= child.limit
           /\ child.limit <= parent.limit
           /\ parent.limit <= l

\* C16: String() and StringData() return a string for every element the
\* decoder can append, without indexing Data out of range; String() renders
\* the value through stringData when Len < 128 and prints "..." otherwise.
C16_RenderingTotal ==
    \A i \in 1..Len(rendered) :
        LET e == result[i]
            r == rendered[i]
        IN /\ r.out.kind # "panic"
           /\ (r.viaString /\ e.Len >= 128) => r.out.kind = "placeholder"
           /\ (r.viaString /\ e.Len < 128) => r.out = stringData(e)

====
